---- MODULE Spec2Model ----
(***************************************************************************)
(* New-Year-Sparkler: the frame orchestrator (animate), the emitter state  *)
(* machine (updateEmitter) and the particle engine (createTrailParticle,   *)
(* createBurstParticles, updateParticles).                                 *)
(*                                                                         *)
(* Numbers.  The program computes in IEEE doubles; the model computes in   *)
(* fixed point and rounds toward zero:                                     *)
(*   - lengths and velocities are integers in units of 1/Q pixel;          *)
(*   - life, decay, flash intensity, probabilities and Math.random()       *)
(*     values are integers in units of 1/ONE.                              *)
(* Speeds are compared by their squares, so no square root is taken.       *)
(***************************************************************************)
EXTENDS Integers, Sequences, FiniteSets, TLC

Q == 100
ONE == 10000

\* ---------------------------------------------------------------- bounds
\* animate() runs at most MaxTicks times in a behaviour of Spec.
MaxTicks == 4
\* The drawing surface (canvas.width, canvas.height), in pixels.
canvasWidth == 128
canvasHeight == 72

\* ------------------------------------------------------------- constants
\* constants.ts, in hundredths where the source has a fraction
INERTIA_FACTOR == 25
DRAW_SPEED_THRESHOLD == 3
BURST_ARM_SPEED == 15
BURST_TRIGGER_SPEED == 5
BURST_PARTICLE_COUNT == 60
TRAIL_COLOR == "255, 215, 0"
BURST_COLORS == << "255, 100, 50", "255, 215, 0", "255, 255, 255", "100, 200, 255" >>
FINGER_COLORS == << "255, 120, 80", "255, 215, 0", "255, 240, 150", "255, 200, 50", "255, 160, 100" >>
\* FINGER_INDICES has five entries: thumb, index, middle, ring, pinky
NumFingers == 5
\* numHands: 2 in HandLandmarker.createFromOptions
numHands == 2
\* literals of animate and updateEmitter, in hundredths
FLASH_BOOST == 50
FLASH_DECAY == 85
FLASH_VISIBLE == 1
OVERLAY_ALPHA == 40
\* literals of the particle engine, in hundredths
BOUNCE_DAMPING == 60
TRAIL_GRAVITY == 10
BURST_GRAVITY == 30
VELOCITY_CARRY == 10

\* ---------------------------------------------------------------- helpers
Abs(n) == IF n < 0 THEN -n ELSE n
Min(a, b) == IF a < b THEN a ELSE b
Max(a, b) == IF a < b THEN b ELSE a

\* x * num / den, rounded toward zero (den > 0)
Scale(x, num, den) ==
  IF x * num >= 0 THEN (x * num) \div den ELSE -((-(x * num)) \div den)

\* h hundredths of the unit u
Hundredths(h, u) == Scale(u, h, 100)

Put(f, k, v) == [x \in (DOMAIN f) \cup {k} |-> IF x = k THEN v ELSE f[x]]

\* ------------------------------------------------------------ Math.random
\* Math.random() is a generator with a hidden state: here a fixed cycle of
\* values (in hundredths) and the position seed in it; the n-th call after
\* position seed returns Rand(seed, n), a fraction of ONE in [0, 1).
RandCycle == << 0, 30, 55, 99, 15, 70, 25 >>
Rand(seed, n) == Hundredths(RandCycle[((seed + n) % Len(RandCycle)) + 1], ONE)

\* Math.cos / Math.sin of Math.random() * Math.PI * 2, the angle rounded down
\* to a multiple of PI / 2 so that both are exact.
Quadrant(r) == (r * 4) \div ONE
Cos(r) == CASE Quadrant(r) = 0 -> 1 [] Quadrant(r) = 2 -> -1 [] OTHER -> 0
Sin(r) == CASE Quadrant(r) = 1 -> 1 [] Quadrant(r) = 3 -> -1 [] OTHER -> 0

\* -------------------------------------------------------- particle engine
\* createTrailParticle(x, y, velocity, color); its four Math.random() calls
\* are draws n .. n+3 of the tick (angle, speed, decay, size).
createTrailParticle(x, y, velocity, color, seed, n) ==
  LET angle == Rand(seed, n)
      speed == Scale(Rand(seed, n + 1), 2 * Q, ONE)
  IN [ x |-> x,
       y |-> y,
       vx |-> Cos(angle) * speed + Hundredths(VELOCITY_CARRY, velocity.x),
       vy |-> Sin(angle) * speed + Hundredths(VELOCITY_CARRY, velocity.y),
       life |-> ONE,
       decay |-> Hundredths(2, ONE) + Hundredths(3, Rand(seed, n + 2)),
       color |-> color,
       size |-> 2 * Q + Scale(Rand(seed, n + 3), 3 * Q, ONE),
       type |-> "trail",
       gravity |-> Hundredths(TRAIL_GRAVITY, Q) ]

\* One iteration of the loop of createBurstParticles: five Math.random()
\* calls (angle, speed, colour, decay, size), draws n .. n+4.
BurstParticle(x, y, seed, n) ==
  LET angle == Rand(seed, n)
      speed == 2 * Q + Scale(Rand(seed, n + 1), 10 * Q, ONE)
      colorBase == BURST_COLORS[((Rand(seed, n + 2) * Len(BURST_COLORS)) \div ONE) + 1]
  IN [ x |-> x,
       y |-> y,
       vx |-> Cos(angle) * speed,
       vy |-> Sin(angle) * speed,
       life |-> ONE,
       decay |-> Hundredths(1, ONE) + Hundredths(2, Rand(seed, n + 3)),
       color |-> colorBase,
       size |-> 3 * Q + Scale(Rand(seed, n + 4), 4 * Q, ONE),
       type |-> "burst",
       gravity |-> Hundredths(BURST_GRAVITY, Q) ]

createBurstParticles(x, y, seed, n) ==
  [ i \in 1..BURST_PARTICLE_COUNT |-> BurstParticle(x, y, seed, n + 5 * (i - 1)) ]

\* ageing with the sign of the decay slipped
Aged_Grows(p) == [p EXCEPT !.life = p.life + p.decay]

\* updateParticles: p.life -= p.decay
Aged(p) == [p EXCEPT !.life = p.life - p.decay]

\* a particle kept while its life is not negative
Alive_OrZero(p) == p.life >= 0

\* updateParticles: if (p.life > 0)
Alive(p) == p.life > 0

\* a bounce that reflects the velocity the particle had before gravity
Moved_BounceBeforeGravity(p, height) ==
  LET y1 == p.y + p.vy
      vy1 == p.vy + p.gravity
  IN IF y1 > height /\ vy1 > 0
     THEN [p EXCEPT !.x = p.x + p.vx, !.y = height, !.vy = -Hundredths(BOUNCE_DAMPING, p.vy)]
     ELSE [p EXCEPT !.x = p.x + p.vx, !.y = y1, !.vy = vy1]

\* updateParticles: the motion, gravity and floor bounce of a particle kept
Moved(p, height) ==
  LET y1 == p.y + p.vy
      vy1 == p.vy + p.gravity
  IN IF y1 > height /\ vy1 > 0
     THEN [p EXCEPT !.x = p.x + p.vx, !.y = height, !.vy = -Hundredths(BOUNCE_DAMPING, vy1)]
     ELSE [p EXCEPT !.x = p.x + p.vx, !.y = y1, !.vy = vy1]

updateParticles(ps, width, height) ==
  LET aliveParticles == SelectSeq([i \in DOMAIN ps |-> Aged(ps[i])], Alive)
  IN [i \in DOMAIN aliveParticles |-> Moved(aliveParticles[i], height)]

\* ------------------------------------------------------------ drawParticles
\* A 2D context ctx is [globalCompositeOperation, fillStyle, pixels]: pixels
\* gives, for each pixel <<i, j>> looked at, its <<r, g, b>> in 0..255 (the
\* surface is opaque: the video frame was drawn on it).  fillStyle is
\* [rgb, alpha], alpha a fraction of ONE.

\* the channels of the colour strings of constants.ts and FINGER_COLORS
Rgb(color) ==
  CASE color = "255, 215, 0" -> << 255, 215, 0 >>
    [] color = "255, 100, 50" -> << 255, 100, 50 >>
    [] color = "255, 255, 255" -> << 255, 255, 255 >>
    [] color = "100, 200, 255" -> << 100, 200, 255 >>
    [] color = "255, 120, 80" -> << 255, 120, 80 >>
    [] color = "255, 240, 150" -> << 255, 240, 150 >>
    [] color = "255, 200, 50" -> << 255, 200, 50 >>
    [] color = "255, 160, 100" -> << 255, 160, 100 >>

\* ctx.fillStyle = `${p.color} ${p.life})`, i.e. rgba(r, g, b, life)
FillStyle(p) == [ rgb |-> Rgb(p.color), alpha |-> p.life ]

\* ctx.arc(p.x, p.y, p.size * p.life, 0, Math.PI * 2): the pixels whose centre
\* (i + 0.5, j + 0.5) is in the disc; coordinates doubled to stay whole
InArc(pixel, p) ==
  LET radius == Scale(p.size, p.life, ONE)
      dx == 2 * p.x - (2 * pixel[1] + 1) * Q
      dy == 2 * p.y - (2 * pixel[2] + 1) * Q
  IN dx * dx + dy * dy <= (2 * radius) * (2 * radius)

\* a blend that ignores the compositing mode and paints over
Composite_SourceOver(operation, dest, source, alpha) ==
  Min(255, source + Scale(dest, ONE - alpha, ONE))

\* one channel of one pixel under ctx.fill(): source is the channel of the
\* fill colour times its alpha; 'lighter' adds it to the destination up to
\* 255, 'source-over' paints it over the destination
Composite(operation, dest, source, alpha) ==
  IF operation = "lighter"
  THEN Min(255, dest + source)
  ELSE Min(255, source + Scale(dest, ONE - alpha, ONE))

\* ctx.fill() of the arc of particle p with the current fillStyle
Fill(ctx, p) ==
  [ctx EXCEPT !.pixels =
     [pixel \in DOMAIN ctx.pixels |->
        IF InArc(pixel, p)
        THEN [c \in 1..3 |->
                Composite(ctx.globalCompositeOperation, ctx.pixels[pixel][c],
                          Scale(ctx.fillStyle.rgb[c], ctx.fillStyle.alpha, ONE),
                          ctx.fillStyle.alpha)]
        ELSE ctx.pixels[pixel]]]

\* for (const p of particles) { beginPath; fillStyle; arc; fill }, from the
\* i-th particle on
RECURSIVE DrawFrom(_, _, _)
DrawFrom(ctx, ps, i) ==
  IF i > Len(ps) THEN ctx
  ELSE DrawFrom(Fill([ctx EXCEPT !.fillStyle = FillStyle(ps[i])], ps[i]), ps, i + 1)

\* drawParticles(ctx, particles)
drawParticles(ctx, ps) ==
  LET lighter == [ctx EXCEPT !.globalCompositeOperation = "lighter"]
  IN [DrawFrom(lighter, ps, 1) EXCEPT !.globalCompositeOperation = "source-over"]

\* -------------------------------------------------------------- recording
\* RecorderState (types.ts)
RecorderState == { "IDLE", "RECORDING", "PROCESSING", "FINISHED" }

\* videoBlob: null, or the Blob made of `chunks` recorded chunks
NoBlob == [ present |-> FALSE, chunks |-> 0 ]
Blob(chunks) == [ present |-> TRUE, chunks |-> chunks ]

\* The state of SparklerRecorder and RecorderControls that recording uses:
\*   recorderState, videoBlob   useState of SparklerRecorder
\*   isPressed                  useState of RecorderControls
\*   mediaRecorderRef           0 for null, else the index of a MediaRecorder
\*   recordedChunksRef          the number of chunks in the array
\*   recorders                  every MediaRecorder constructed, in order: its
\*                              state, the stop() calls made on it, and whether
\*                              its stop event is queued and not yet fired
\*   pointerEvents              what the hold button's classes pointer-events-auto
\*                              and pointer-events-none amount to together while
\*                              the button is hidden (the stylesheet decides)
\* and, for observation only, about the last event handled: its name, the
\* recorderState before it, the recorder it started (0 for none), the
\* recorders it called stop() on, and the recorders started since the latest
\* release or leave: `owed` after the event, `due` before it.
NoRecorder ==
  [ recorderState |-> "IDLE", videoBlob |-> NoBlob, isPressed |-> FALSE,
    mediaRecorderRef |-> 0, recordedChunksRef |-> 0, recorders |-> << >>,
    pointerEvents |-> "none",
    event |-> "none", previous |-> "IDLE", started |-> 0, stopped |-> {},
    owed |-> {}, due |-> {} ]

\* the MediaRecorders that are recording
Active(r) == { i \in DOMAIN r.recorders : r.recorders[i].state = "recording" }

\* what the observation fields hold once `event` has taken the recorder
\* from `before` to `after`
Handled(before, after, event) ==
  LET started == IF Len(after.recorders) > Len(before.recorders)
                 THEN Len(after.recorders) ELSE 0
  IN [ after EXCEPT
         !.event = event,
         !.previous = before.recorderState,
         !.started = started,
         !.stopped = { i \in DOMAIN before.recorders :
                         after.recorders[i].stops > before.recorders[i].stops },
         !.due = before.owed,
         !.owed = IF event \in { "release", "leave" } THEN {}
                  ELSE before.owed \cup ({ started } \ { 0 }) ]

\* startRecording(): canvasRef.current is set whenever RecorderControls is
\* rendered; `outcome` is "throws" when new MediaRecorder(...) or
\* recorder.start() throws, else "ok"
startRecording(r, outcome) ==
  LET recording == [ r EXCEPT !.recorderState = "RECORDING", !.recordedChunksRef = 0 ]
      recorder == Len(r.recorders) + 1
  IN IF outcome = "ok"
     THEN [ recording EXCEPT
              !.recorders = Append(@, [ state |-> "recording", stops |-> 0, queued |-> FALSE ]),
              !.mediaRecorderRef = recorder ]
     ELSE [ recording EXCEPT !.recorderState = "IDLE" ]

\* stopRecording(): MediaRecorder.stop() makes the recorder inactive at once
\* and queues its dataavailable and stop events
stopRecording(r) ==
  LET recorder == r.mediaRecorderRef
  IN IF recorder # 0 /\ r.recorders[recorder].state # "inactive"
     THEN [ r EXCEPT !.recorders[recorder] =
                       [ state |-> "inactive", stops |-> @.stops + 1, queued |-> TRUE ] ]
     ELSE r

\* recorder.ondataavailable, with event.data.size = size
ondataavailable(r, size) ==
  IF size > 0 THEN [ r EXCEPT !.recordedChunksRef = @ + 1 ] ELSE r

\* recorder.onstop of the recorder `recorder`
onstop(r, recorder) ==
  [ r EXCEPT !.videoBlob = Blob(r.recordedChunksRef),
             !.recorderState = "FINISHED",
             !.recorders[recorder].queued = FALSE ]

\* downloadVideo(): with a blob, a link to it is made and clicked
downloadVideo(r) == r

\* resetRecording()
resetRecording(r) == [ r EXCEPT !.videoBlob = NoBlob, !.recorderState = "IDLE" ]

\* RecorderControls.handlePointerDown
handlePointerDown(r, outcome) == startRecording([ r EXCEPT !.isPressed = TRUE ], outcome)

\* RecorderControls.handlePointerUp
handlePointerUp(r) ==
  IF r.isPressed THEN stopRecording([ r EXCEPT !.isPressed = FALSE ]) ELSE r

\* RecorderControls.handlePointerLeave
handlePointerLeave(r) == handlePointerUp(r)

\* RecorderControls renders the hold button unless the state is FINISHED,
\* and then the reset and download buttons instead
HoldButton(r) == r.recorderState # "FINISHED"

\* the hold button is a target for a new pointer: while RECORDING it is
\* hidden, with both pointer-events-auto and pointer-events-none in its class
HitTestable(r) ==
  HoldButton(r) /\ (r.recorderState = "RECORDING" => r.pointerEvents = "auto")

\* ------------------------------------------------------------------ state
VARIABLES
  emitters,     \* emittersRef.current: key -> EmitterState
  particles,    \* particlesRef.current
  lighting,     \* lightingIntensityRef.current
  rng,          \* the state of Math.random(): its position in RandCycle
  tick,         \* number of animate() runs so far
  frame,        \* what the last run of animate() did (observation only)
  calls,        \* the updateEmitter calls of the last run, by key (observation only)
  recent,       \* per emitter, its latest update calls, oldest first (observation only)
  sim,          \* SpecSim: the population it started from and the one passed to
                \* the last updateParticles call (observation only)
  loop,         \* SpecLoop: the set-up of the page and the animate callbacks
                \* pending with requestAnimationFrame
  canvas,       \* SpecDraw: the 2D context drawParticles draws on
  recorder      \* SpecRecorder: the recording state of SparklerRecorder, the
                \* pressed state of RecorderControls and the MediaRecorders made

vars ==
  << emitters, particles, lighting, rng, tick, frame, calls, recent, sim, loop, canvas,
     recorder >>

EmptyMap == [k \in {} |-> 0]
NoOverlay == -1
\* how many update calls `recent` remembers per emitter
RecentLen == 3

\* `${handIndex}-${fingerIndex}`
Key(handIndex, fingerIndex) == << handIndex, fingerIndex >>
Keys == { Key(h, f) : h \in 0..(numHands - 1), f \in 0..(NumFingers - 1) }

\* speed > t, with speed = Math.sqrt(speed2) and t in pixels
Faster(speed2, t) == speed2 > (t * Q) * (t * Q)
\* speed < t
Slower(speed2, t) == speed2 < (t * Q) * (t * Q)

\* ---------------------------------------------------------- updateEmitter
\* an emitter seeded at the origin instead of the raw target
NewEmitter_AtOrigin(targetX, targetY) ==
  [ x |-> 0, y |-> 0, vx |-> 0, vy |-> 0, isBurstArmed |-> FALSE ]

\* an emitter created armed
NewEmitter_Armed(targetX, targetY) ==
  [ x |-> targetX, y |-> targetY, vx |-> 0, vy |-> 0, isBurstArmed |-> TRUE ]

\* the emitter stored for a key first seen
NewEmitter(targetX, targetY) ==
  [ x |-> targetX, y |-> targetY, vx |-> 0, vy |-> 0, isBurstArmed |-> FALSE ]

\* an emitter that jumps to its target
Inertia_Full(d) == d

\* dx * INERTIA_FACTOR
Inertia(d) == Hundredths(INERTIA_FACTOR, d)

\* 1. Arming the burst
Arms(speed2) == Faster(speed2, BURST_ARM_SPEED)

\* a trigger that forgets the armed flag
Triggers_Unarmed(isBurstArmed, speed2) == Slower(speed2, BURST_TRIGGER_SPEED)

\* a trigger that never fires
Triggers_Never(isBurstArmed, speed2) == FALSE

\* 2. Triggering the burst
Triggers(isBurstArmed, speed2) == isBurstArmed /\ Slower(speed2, BURST_TRIGGER_SPEED)

\* a flash raised without the clamp
Flash_NoClamp(intensity) == intensity + Hundredths(FLASH_BOOST, ONE)

\* Flash light: Math.min(lightingIntensity + 0.5, 1.0)
Flash(intensity) == Min(intensity + Hundredths(FLASH_BOOST, ONE), ONE)

\* a trail drawn by any moving emitter
Draws_AnySpeed(speed2) == speed2 > 0

\* 3. Emitting trails: the speed tests of the first and of the secondary particle
Draws(speed2) == Faster(speed2, DRAW_SPEED_THRESHOLD)
\* a secondary particle that does not wait for twice the threshold
DrawsTwice_AnySpeed(speed2) == TRUE

DrawsTwice(speed2) == Faster(speed2, DRAW_SPEED_THRESHOLD * 2)

\* w is the program state inside one run of animate(): emitters, particles,
\* lighting, the number of Math.random() calls made so far (draws), and the
\* observations calls, recent, afterUpdates (the keys of the registry when the
\* forEach ended) and log (the steps of the run so far, in the order run).
updateEmitter(w, key, targetX, targetY, particleChance, color, seed) ==
  IF key \notin DOMAIN w.emitters
  THEN [w EXCEPT
          !.emitters = Put(@, key, NewEmitter(targetX, targetY)),
          !.recent = Put(@, key, << >>),
          !.log = Append(@, [op |-> "updateEmitter", key |-> key]),
          !.calls = Put(@, key,
             [ created |-> TRUE, targetX |-> targetX, targetY |-> targetY,
               particleChance |-> particleChance, speed2 |-> 0,
               armedBefore |-> FALSE, burst |-> 0, trail |-> 0, trails |-> << >>,
               from |-> Len(w.particles), flashBefore |-> w.lighting,
               flashAfter |-> w.lighting ])]
  ELSE
    LET emitter == w.emitters[key]
        dx == targetX - emitter.x
        dy == targetY - emitter.y
        x1 == emitter.x + Inertia(dx)
        y1 == emitter.y + Inertia(dy)
        vx == Inertia(dx)
        vy == Inertia(dy)
        speed2 == vx * vx + vy * vy
        armed1 == emitter.isBurstArmed \/ Arms(speed2)
        trigger == Triggers(armed1, speed2)
        burst == IF trigger THEN createBurstParticles(x1, y1, seed, w.draws) ELSE << >>
        n1 == w.draws + (IF trigger THEN 5 * BURST_PARTICLE_COUNT ELSE 0)
        lighting1 == IF trigger THEN Flash(w.lighting) ELSE w.lighting
        \* first trail particle: one Math.random() for the chance, four in the factory
        first == Draws(speed2) /\ Rand(seed, n1) < particleChance
        trail1 == IF first
                  THEN << createTrailParticle(x1, y1, [x |-> vx, y |-> vy], color, seed, n1 + 1) >>
                  ELSE << >>
        n2 == n1 + (IF Draws(speed2) THEN 1 ELSE 0) + (IF first THEN 4 ELSE 0)
        \* secondary particle: Math.random() is called only if the speed test passes
        dense == Draws(speed2) /\ DrawsTwice(speed2)
        second == dense /\ Rand(seed, n2) < particleChance
        trail2 == IF second
                  THEN << createTrailParticle(x1, y1, [x |-> vx, y |-> vy], color, seed, n2 + 1) >>
                  ELSE << >>
        n3 == n2 + (IF dense THEN 1 ELSE 0) + (IF second THEN 4 ELSE 0)
        call == [ created |-> FALSE, targetX |-> targetX, targetY |-> targetY,
                  particleChance |-> particleChance, speed2 |-> speed2,
                  armedBefore |-> emitter.isBurstArmed,
                  burst |-> Len(burst), trail |-> Len(trail1) + Len(trail2),
                  trails |-> trail1 \o trail2,
                  from |-> Len(w.particles), flashBefore |-> w.lighting,
                  flashAfter |-> lighting1 ]
        seen == Append(w.recent[key], [speed2 |-> speed2, burst |-> Len(burst),
                                       armed |-> armed1 /\ ~trigger])
    IN [w EXCEPT
          !.emitters[key] = [ x |-> x1, y |-> y1, vx |-> vx, vy |-> vy,
                              isBurstArmed |-> armed1 /\ ~trigger ],
          !.particles = @ \o burst \o trail1 \o trail2,
          !.lighting = lighting1,
          !.draws = n3,
          !.log = Append(@, [op |-> "updateEmitter", key |-> key]),
          !.calls = Put(@, key, call),
          !.recent[key] = IF Len(seen) > RecentLen THEN Tail(seen) ELSE seen]

\* ---------------------------------------------------------------- animate
\* A fingertip landmark tip is [x, y] with tip.x in units of 1/canvasWidth and
\* tip.y in units of 1/canvasHeight, so that the raw target is a whole pixel.
\* targetX = (1 - tip.x) * canvas.width, targetY = tip.y * canvas.height
TargetX(tip) == (canvasWidth - tip.x) * Q
TargetY(tip) == tip.y * Q

\* a chance computed from the emitter count itself, not from half of it
particleMultiplier_NoHalf(numLandmarks) ==
  LET totalActiveEmitters == numLandmarks * 5
  IN ONE \div Max(1, totalActiveEmitters)

\* particleMultiplier = 1 / Math.max(1, totalActiveEmitters * 0.5), with
\* totalActiveEmitters = results.landmarks.length * 5
particleMultiplier(numLandmarks) ==
  LET totalActiveEmitters == numLandmarks * 5
  IN (2 * ONE) \div Max(2, totalActiveEmitters)

\* results.landmarks.forEach(hand => FINGER_INDICES.forEach(...)): the calls
\* of updateEmitter in order, from the n-th (hand n \div 5, finger n % 5) on.
RECURSIVE ForEachTip(_, _, _, _)
ForEachTip(w, landmarks, seed, n) ==
  IF n >= Len(landmarks) * NumFingers
  THEN w
  ELSE LET handIndex == n \div NumFingers
           fingerIndex == n % NumFingers
           tip == landmarks[handIndex + 1][fingerIndex]
       IN ForEachTip(
            updateEmitter(w, Key(handIndex, fingerIndex), TargetX(tip), TargetY(tip),
                          particleMultiplier(Len(landmarks)),
                          FINGER_COLORS[fingerIndex + 1], seed),
            landmarks, seed, n + 1)

\* the keys of the first hand only
ActiveKeys_FirstHand(landmarks) ==
  { Key(h, f) : h \in 0..(Min(Len(landmarks), 1) - 1), f \in 0..(NumFingers - 1) }

\* activeKeys.add(key) for every hand and finger of results.landmarks
ActiveKeys(landmarks) ==
  { Key(h, f) : h \in 0..(Len(landmarks) - 1), f \in 0..(NumFingers - 1) }

\* a cleanup that removes nothing
Cleanup_KeepAll(registry, activeKeys) == registry

\* a cleanup that runs only inside `if (results.landmarks.length > 0)`
Cleanup_WhenTracked(registry, activeKeys) ==
  IF activeKeys = {} THEN registry
  ELSE [k \in (DOMAIN registry) \cap activeKeys |-> registry[k]]

\* Cleanup: remove emitters that are no longer tracked
Cleanup(registry, activeKeys) == [k \in (DOMAIN registry) \cap activeKeys |-> registry[k]]

\* a tracking block that removes the untracked emitters before the updates
Tracking_CleanupFirst(w, landmarks, seed) ==
  LET activeKeys == ActiveKeys(landmarks)
      registry == Cleanup(w.emitters, activeKeys)
      w1 == ForEachTip(
              [w EXCEPT !.emitters = registry,
                        !.log = Append(@, [op |-> "cleanup",
                                           keys |-> (DOMAIN w.emitters) \ (DOMAIN registry)])],
              landmarks, seed, 0)
  IN [w1 EXCEPT !.afterUpdates = DOMAIN w1.emitters]

\* 3. Process Tracking, the body of `if (video.currentTime > 0 && ...)`: the
\* forEach of updateEmitter calls, then the cleanup loop.
Tracking(w, landmarks, seed) ==
  LET activeKeys == ActiveKeys(landmarks)
      w1 == ForEachTip(w, landmarks, seed, 0)
      registry == Cleanup(w1.emitters, activeKeys)
  IN [w1 EXCEPT !.emitters = registry,
                !.afterUpdates = DOMAIN w1.emitters,
                !.log = Append(@, [op |-> "cleanup",
                                   keys |-> (DOMAIN w1.emitters) \ (DOMAIN registry)])]

\* 4. Draw Lighting Effects
OverlayDrawn(intensity) == intensity > Hundredths(FLASH_VISIBLE, ONE)
OverlayAlpha(intensity) == Hundredths(OVERLAY_ALPHA, intensity)
\* a flash that decays whether or not the overlay is drawn
DecayFlash_Always(intensity) == Hundredths(FLASH_DECAY, intensity)

DecayFlash(intensity) ==
  IF OverlayDrawn(intensity) THEN Hundredths(FLASH_DECAY, intensity) ELSE intensity

\* One run of animate(): playing is video.currentTime > 0 && !video.paused &&
\* !video.ended, landmarks is the detector's results.landmarks.
Frame(playing, landmarks) ==
  LET w0 == [ emitters |-> emitters, particles |-> particles, lighting |-> lighting,
              draws |-> 0, calls |-> EmptyMap, recent |-> recent,
              afterUpdates |-> DOMAIN emitters,
              log |-> << [op |-> "drawImage"] >> ]
      activeKeys == ActiveKeys(landmarks)
  IN \E w1 \in { IF playing THEN Tracking(w0, landmarks, rng) ELSE w0 } :
     \E drawn \in { updateParticles(w1.particles, canvasWidth * Q, canvasHeight * Q) } :
     /\ emitters' = w1.emitters
     /\ recent' = [k \in DOMAIN w1.emitters |-> w1.recent[k]]
     /\ calls' = w1.calls
     /\ lighting' = DecayFlash(w1.lighting)
     /\ particles' = drawn
     /\ rng' = (rng + w1.draws) % Len(RandCycle)
     /\ tick' = tick + 1
     /\ frame' = [ processed |-> playing,
                   landmarks |-> IF playing THEN landmarks ELSE << >>,
                   activeKeys |-> IF playing THEN activeKeys ELSE {},
                   lastTracked |-> IF playing THEN activeKeys ELSE frame.lastTracked,
                   registryAtStart |-> DOMAIN emitters,
                   armedAtStart |-> { k \in DOMAIN emitters : emitters[k].isBurstArmed },
                   registryAfterUpdates |-> w1.afterUpdates,
                   population |-> Len(particles),
                   emitted |-> Len(w1.particles) - Len(particles),
                   flashAtStart |-> lighting,
                   flashAtOverlay |-> w1.lighting,
                   overlay |-> IF OverlayDrawn(w1.lighting)
                               THEN OverlayAlpha(w1.lighting) ELSE NoOverlay,
                   log |-> w1.log
                           \o (IF OverlayDrawn(w1.lighting)
                               THEN << [op |-> "fillRect"] >> ELSE << >>)
                           \o << [op |-> "updateParticles", population |-> Len(w1.particles)],
                                 [op |-> "drawParticles", population |-> Len(drawn)] >> ]

\* ----------------------------------------------------------------- inputs
\* Fingertips are placed by the pixel the mirrored canvas shows them at.
Tip(px, py) == [ x |-> canvasWidth - px, y |-> py ]
Floor == canvasHeight
Home == Tip(0, Floor)
\* where the moving fingers go: along the floor line, and one point off it
\* where the index finger points: along the floor line
Points == { Tip(0, Floor), Tip(52, Floor), Tip(80, Floor), Tip(100, Floor), Tip(120, Floor) }
\* where three fingers grab: off the floor line
GrabPoints == { Tip(48, Floor - 64), Tip(12, Floor - 16) }
\* a hand whose index finger is at tip, the other fingers at Home
Point(tip) == [ f \in 0..(NumFingers - 1) |-> IF f = 1 THEN tip ELSE Home ]
\* a hand whose thumb, index and middle finger are at tip
Grab(tip) == [ f \in 0..(NumFingers - 1) |-> IF f <= 2 THEN tip ELSE Home ]
LandmarkInputs ==
  { << >> } \cup { << Point(t) >> : t \in Points } \cup { << Grab(t) >> : t \in GrabPoints }
    \cup { << Point(Tip(80, Floor)), Point(Home) >> }

\* ---------------------------------------------------------- specification
NoFrame ==
  [ processed |-> FALSE, landmarks |-> << >>, activeKeys |-> {}, lastTracked |-> {},
    registryAtStart |-> {}, armedAtStart |-> {}, registryAfterUpdates |-> {},
    population |-> 0,
    emitted |-> 0, flashAtStart |-> 0, flashAtOverlay |-> 0, overlay |-> NoOverlay,
    log |-> << >> ]

\* no context obtained yet
NoCanvas == [ ctx |-> << >>, reference |-> << >>, order |-> << >>, calls |-> 0 ]

\* nothing set up and no callback pending
NoLoop ==
  [ landmarker |-> FALSE, camera |-> "none", listening |-> FALSE, loads |-> 0,
    pending |-> 0, queue |-> 0, refresh |-> 0, ran |-> 0 ]

Init ==
  /\ emitters = EmptyMap
  /\ particles = << >>
  /\ lighting = 0
  /\ rng = 0
  /\ tick = 0
  /\ calls = EmptyMap
  /\ recent = EmptyMap
  /\ sim = [ origin |-> << >>, before |-> << >> ]
  /\ frame = NoFrame
  /\ loop = NoLoop
  /\ recorder = NoRecorder
  /\ canvas = NoCanvas

\* animate() while the video is not playing (video.currentTime = 0, paused or ended)
AnimateIdle ==
  /\ tick < MaxTicks
  /\ Frame(FALSE, << >>)
  /\ UNCHANGED << sim, loop, canvas, recorder >>

\* animate() with the video playing
AnimateTracking ==
  /\ tick < MaxTicks
  /\ \E landmarks \in LandmarkInputs : Frame(TRUE, landmarks)
  /\ UNCHANGED << sim, loop, canvas, recorder >>

Next == AnimateIdle \/ AnimateTracking

Spec == Init /\ [][Next]_vars

\* ------------------------------------------------- the undriven orchestrator
\* SpecSim starts from a state the program can be in between two runs of
\* animate() (particles of several ages, the flash still fading, nothing
\* tracked) and runs animate() with the video not playing: no emission, the
\* flash overlay, then updateParticles and drawParticles of its result.

\* animate() runs at most MaxCalls times in a behaviour of SpecSim.
MaxCalls == 101
\* a starting population holds at most MaxPopulation particles
MaxPopulation == 2
\* the age, in ticks, of the older particles of a starting population
SimAge == 49
\* positions of the Math.random() cycle the starting particles are made at
SimSeeds == { 4, 5 }

\* a particle just pushed by an emitter moving along the floor line
Fresh(type, seed) ==
  IF type = "trail"
  THEN createTrailParticle(40 * Q, Floor * Q, [x |-> 4 * Q, y |-> 3 * Q], TRAIL_COLOR, seed, 0)
  ELSE BurstParticle(40 * Q, Floor * Q, seed, 0)

RECURSIVE After(_, _)
\* the population ps after k ticks
After(ps, k) ==
  IF k = 0 \/ ps = << >> THEN ps
  ELSE After(updateParticles(ps, canvasWidth * Q, canvasHeight * Q), k - 1)

SimSingles ==
  { After(<< Fresh(type, seed) >>, age) :
      type \in { "trail", "burst" }, seed \in SimSeeds, age \in { 0, SimAge } }

RECURSIVE SimPopulations(_)
SimPopulations(n) ==
  IF n = 0 THEN { << >> }
  ELSE { a \o b : a \in SimSingles \cup { << >> }, b \in SimPopulations(n - 1) }

\* the flash at the end of a tick: none, or what a burst of that tick left
SimFlashes == { 0, DecayFlash(Flash(0)) }

InitSim ==
  /\ emitters = EmptyMap
  /\ particles \in SimPopulations(MaxPopulation)
  /\ lighting \in SimFlashes
  /\ rng = 0
  /\ tick = 0
  /\ calls = EmptyMap
  /\ recent = EmptyMap
  /\ sim = [ origin |-> particles, before |-> particles ]
  /\ frame = NoFrame
  /\ loop = NoLoop
  /\ recorder = NoRecorder
  /\ canvas = NoCanvas

SimTick ==
  /\ tick < MaxCalls
  /\ Frame(FALSE, << >>)
  /\ sim' = [sim EXCEPT !.before = particles]
  /\ UNCHANGED << loop, canvas, recorder >>

NextSim == SimTick

SpecSim == InitSim /\ [][NextSim]_vars

\* ------------------------------------------- the core with nothing tracked
\* SpecQuiet starts between two runs of animate() with emitters still in the
\* registry, particles in flight and the flash fading, and from then on
\* animate() never gets a tracked point: the detector reports no hand
\* (QuietTracking) or the video is not playing (QuietIdle).
QuietRegistries ==
  { EmptyMap,
    Tracking([ emitters |-> EmptyMap, particles |-> << >>, lighting |-> 0, draws |-> 0,
               calls |-> EmptyMap, recent |-> EmptyMap, afterUpdates |-> {}, log |-> << >> ],
             << Point(Tip(80, Floor)), Point(Home) >>, 0).emitters }

InitQuiet ==
  /\ emitters \in QuietRegistries
  /\ particles \in SimPopulations(MaxPopulation)
  /\ lighting \in SimFlashes
  /\ rng = 0
  /\ tick = 0
  /\ calls = EmptyMap
  /\ recent = [k \in DOMAIN emitters |-> << >>]
  /\ sim = [ origin |-> particles, before |-> particles ]
  /\ frame = NoFrame
  /\ loop = NoLoop
  /\ recorder = NoRecorder
  /\ canvas = NoCanvas

\* animate() with the video playing and no hand detected
QuietTracking ==
  /\ tick < MaxCalls
  /\ Frame(TRUE, << >>)
  /\ sim' = [sim EXCEPT !.before = particles]
  /\ UNCHANGED << loop, canvas, recorder >>

\* animate() with the video not playing
QuietIdle ==
  /\ tick < MaxCalls
  /\ Frame(FALSE, << >>)
  /\ sim' = [sim EXCEPT !.before = particles]
  /\ UNCHANGED << loop, canvas, recorder >>

NextQuiet == QuietTracking \/ QuietIdle

SpecQuiet == InitQuiet /\ [][NextQuiet]_vars

\* ------------------------------------------------------- the frame loop
\* SpecLoop follows the page from its mounting: the useEffect that loads the
\* hand landmarker and then calls startCamera, the loadeddata listener that
\* startCamera adds to the video, and requestAnimationFrame.  loop is
\*   landmarker  handLandmarkerRef.current is set
\*   camera      "none", "requested" (getUserMedia pending), "streaming", "failed"
\*   listening   the video has the loadeddata listener that calls animate()
\*   loads       loadeddata events so far
\*   pending     animate callbacks requested for the next display refresh
\*   queue       callbacks of the refresh in progress that have not run yet
\*   refresh     display refreshes so far that ran a callback
\*   ran         animate callbacks run in the latest refresh

\* the browser fires loadeddata at most MaxLoads times
MaxLoads == 2
\* the display refreshes at most MaxRefreshes times
MaxRefreshes == 3

\* what the detector may report to a run of animate() in SpecLoop
LoopInputs == { << >>, << Point(Home) >> }

\* setupMediaPipe: the landmarker is created, then startCamera() asks for the camera
SetupMediaPipe ==
  /\ loop.camera = "none"
  /\ ~loop.landmarker
  /\ loop' = [loop EXCEPT !.landmarker = TRUE, !.camera = "requested"]
  /\ UNCHANGED << emitters, particles, lighting, rng, tick, frame, calls, recent, sim, canvas, recorder >>

\* setupMediaPipe: loading the model fails (catch: "Failed to load AI models.")
SetupFails ==
  /\ loop.camera = "none"
  /\ ~loop.landmarker
  /\ loop' = [loop EXCEPT !.camera = "failed"]
  /\ UNCHANGED << emitters, particles, lighting, rng, tick, frame, calls, recent, sim, canvas, recorder >>

\* startCamera: getUserMedia resolves; the stream is attached and the
\* loadeddata listener added
CameraGranted ==
  /\ loop.camera = "requested"
  /\ loop' = [loop EXCEPT !.camera = "streaming", !.listening = TRUE]
  /\ UNCHANGED << emitters, particles, lighting, rng, tick, frame, calls, recent, sim, canvas, recorder >>

\* startCamera: getUserMedia rejects (catch: "Please allow camera access")
CameraDenied ==
  /\ loop.camera = "requested"
  /\ loop' = [loop EXCEPT !.camera = "failed"]
  /\ UNCHANGED << emitters, particles, lighting, rng, tick, frame, calls, recent, sim, canvas, recorder >>

\* the body of animate() up to its last line: the early return while a ref is
\* missing, else one frame (canvas.getContext('2d') gives a context here)
Animate ==
  IF ~loop.landmarker
  THEN UNCHANGED << emitters, particles, lighting, rng, tick, frame, calls, recent >>
  ELSE \E playing \in BOOLEAN, landmarks \in LoopInputs :
         /\ playing \/ landmarks = << >>
         /\ Frame(playing, landmarks)

\* the video fires loadeddata: the listener calls animate(), which ends with
\* requestRef.current = requestAnimationFrame(animate)
LoadedData ==
  /\ loop.listening
  /\ loop.queue = 0
  /\ loop.loads < MaxLoads
  /\ Animate
  /\ loop' = [loop EXCEPT !.loads = @ + 1, !.pending = @ + 1]
  /\ UNCHANGED << sim, canvas, recorder >>

\* a display refresh begins: the browser takes the callbacks requested so far
Refresh ==
  /\ loop.queue = 0
  /\ loop.pending > 0
  /\ loop.refresh < MaxRefreshes
  /\ loop' = [loop EXCEPT !.queue = loop.pending, !.pending = 0,
                          !.refresh = @ + 1, !.ran = 0]
  /\ UNCHANGED << emitters, particles, lighting, rng, tick, frame, calls, recent, sim, canvas, recorder >>

\* the browser runs one callback of the refresh: animate(), which requests
\* the next frame
AnimationFrame ==
  /\ loop.queue > 0
  /\ Animate
  /\ loop' = [loop EXCEPT !.queue = @ - 1, !.pending = @ + 1, !.ran = @ + 1]
  /\ UNCHANGED << sim, canvas, recorder >>

InitLoop == Init

NextLoop ==
  \/ SetupMediaPipe
  \/ SetupFails
  \/ CameraGranted
  \/ CameraDenied
  \/ LoadedData
  \/ Refresh
  \/ AnimationFrame

SpecLoop == InitLoop /\ [][NextLoop]_vars

\* ------------------------------------------------------- flick, then stop
\* SpecFlick: hands appear (FlickAppear), their fingertips jump to another
\* place in one frame (FlickMove), and from then on the detector reports the
\* same landmarks in every frame (FlickHold); the video plays throughout.
\* requestAnimationFrame keeps animate() running, hence the fairness.

\* animate() runs at most MaxHold times in a behaviour of SpecFlick
MaxHold == 12

FlickInputs == LandmarkInputs \ { << >> }

FlickAppear ==
  /\ tick = 0
  /\ \E landmarks \in FlickInputs : Frame(TRUE, landmarks)
  /\ UNCHANGED << sim, loop, canvas, recorder >>

FlickMove ==
  /\ tick = 1
  /\ \E landmarks \in FlickInputs : Frame(TRUE, landmarks)
  /\ UNCHANGED << sim, loop, canvas, recorder >>

FlickHold ==
  /\ tick >= 2
  /\ tick < MaxHold
  /\ Frame(TRUE, frame.landmarks)
  /\ UNCHANGED << sim, loop, canvas, recorder >>

NextFlick == FlickAppear \/ FlickMove \/ FlickHold

\* the next run of animate(), seen by its count alone: every step of
\* NextFlick is one, and one is possible exactly when NextFlick is
Ticks == tick < MaxHold /\ tick' = tick + 1

SpecFlick == Init /\ [][NextFlick]_vars /\ WF_tick(Ticks)

\* -------------------------------------------------------------- rendering
\* SpecDraw: a population that updateParticles returned is drawn once on a
\* surface, in some order of its particles; canvas.reference is what drawing
\* the same population in its own order on the same surface gives.

\* a population drawn holds at most MaxDrawn particles
MaxDrawn == 3
\* the age, in ticks, of the older particles drawn
DrawAge == 2

\* the pixels looked at: around the place the particles were pushed at
DrawPixels == { << i, j >> : i \in 36..43, j \in { Floor - 2, Floor - 1 } }

\* the surface before drawParticles: the video frame, dark or bright
DrawSurfaces ==
  { [pixel \in DrawPixels |-> rgb] : rgb \in { << 0, 0, 0 >>, << 120, 90, 200 >> } }

DrawSingles ==
  { After(<< Fresh(type, seed) >>, 1) : type \in { "trail", "burst" }, seed \in SimSeeds }
    \cup { After(<< Fresh("burst", seed) >>, DrawAge) : seed \in SimSeeds }

RECURSIVE DrawPopulations(_)
DrawPopulations(n) ==
  IF n = 0 THEN { << >> }
  ELSE { a \o b : a \in DrawSingles \cup { << >> }, b \in DrawPopulations(n - 1) }

\* the orders n particles can be drawn in
Orders(n) == { f \in [1..n -> 1..n] : \A a, b \in 1..n : f[a] = f[b] => a = b }

InitDraw ==
  /\ emitters = EmptyMap
  /\ particles \in DrawPopulations(MaxDrawn)
  /\ lighting = 0
  /\ rng = 0
  /\ tick = 0
  /\ calls = EmptyMap
  /\ recent = EmptyMap
  /\ sim = [ origin |-> << >>, before |-> << >> ]
  /\ frame = NoFrame
  /\ loop = NoLoop
  /\ recorder = NoRecorder
  /\ \E pixels \in DrawSurfaces :
       canvas = [ ctx |-> [ globalCompositeOperation |-> "source-over",
                            fillStyle |-> [ rgb |-> << 0, 0, 0 >>, alpha |-> ONE ],
                            pixels |-> pixels ],
                  reference |-> << >>, order |-> << >>, calls |-> 0 ]

\* drawParticles(ctx, particles), the particles taken in the order `order`
DrawParticles ==
  /\ canvas.calls = 0
  /\ \E order \in Orders(Len(particles)) :
       canvas' = [ ctx |-> drawParticles(canvas.ctx, [i \in 1..Len(particles) |-> particles[order[i]]]),
                   reference |-> drawParticles(canvas.ctx, particles),
                   order |-> order,
                   calls |-> 1 ]
  /\ UNCHANGED << emitters, particles, lighting, rng, tick, frame, calls, recent, sim, loop, recorder >>

NextDraw == DrawParticles

SpecDraw == InitDraw /\ [][NextDraw]_vars

\* -------------------------------------------------------------- recording
\* SpecRecorder: the pointer events of the hold button, the clicks on the
\* reset and download buttons, and the stop events of the MediaRecorders,
\* in any order the rendered buttons allow.

\* a behaviour constructs at most MaxRecorders MediaRecorders
MaxRecorders == 3

InitRecorder ==
  /\ emitters = EmptyMap
  /\ particles = << >>
  /\ lighting = 0
  /\ rng = 0
  /\ tick = 0
  /\ calls = EmptyMap
  /\ recent = EmptyMap
  /\ sim = [ origin |-> << >>, before |-> << >> ]
  /\ frame = NoFrame
  /\ loop = NoLoop
  /\ canvas = NoCanvas
  /\ \E pointerEvents \in { "none", "auto" } :
       recorder = [ NoRecorder EXCEPT !.pointerEvents = pointerEvents ]

\* pointerdown on the hold button
Press ==
  /\ HitTestable(recorder)
  /\ \E outcome \in { "ok", "throws" } :
       /\ outcome = "ok" => Len(recorder.recorders) < MaxRecorders
       /\ recorder' = Handled(recorder, handlePointerDown(recorder, outcome), "press")
  /\ UNCHANGED << emitters, particles, lighting, rng, tick, frame, calls, recent, sim, loop, canvas >>

\* pointerup on the hold button: of a pointer it captured when pressed, or
\* of one lifted over it
Release ==
  /\ HoldButton(recorder)
  /\ recorder' = Handled(recorder, handlePointerUp(recorder), "release")
  /\ UNCHANGED << emitters, particles, lighting, rng, tick, frame, calls, recent, sim, loop, canvas >>

\* pointerleave on the hold button
Leave ==
  /\ HoldButton(recorder)
  /\ recorder' = Handled(recorder, handlePointerLeave(recorder), "leave")
  /\ UNCHANGED << emitters, particles, lighting, rng, tick, frame, calls, recent, sim, loop, canvas >>

\* the task MediaRecorder.stop() queued: dataavailable, then stop
RecorderStop ==
  /\ \E i \in DOMAIN recorder.recorders, size \in { 0, 1 } :
       /\ recorder.recorders[i].queued
       /\ recorder' = Handled(recorder, onstop(ondataavailable(recorder, size), i), "onstop")
  /\ UNCHANGED << emitters, particles, lighting, rng, tick, frame, calls, recent, sim, loop, canvas >>

\* click on the reset button
Reset ==
  /\ ~HoldButton(recorder)
  /\ recorder' = Handled(recorder, resetRecording(recorder), "reset")
  /\ UNCHANGED << emitters, particles, lighting, rng, tick, frame, calls, recent, sim, loop, canvas >>

\* click on the download button
Download ==
  /\ ~HoldButton(recorder)
  /\ recorder' = Handled(recorder, downloadVideo(recorder), "download")
  /\ UNCHANGED << emitters, particles, lighting, rng, tick, frame, calls, recent, sim, loop, canvas >>

NextRecorder == Press \/ Release \/ Leave \/ RecorderStop \/ Reset \/ Download

\* a queued stop event is fired: the browser runs the task
SpecRecorder == InitRecorder /\ [][NextRecorder]_vars /\ WF_recorder(RecorderStop)

\* ------------------------------------------------------------------ claims
\* the square of a speed of t pixels per tick
Speed2(t) == (t * Q) * (t * Q)
\* the calls of the last run that found their emitter in the registry
Updated == { k \in DOMAIN calls : k \in frame.registryAtStart }
\* the calls of the last run that created their emitter
Created == { k \in DOMAIN calls : k \notin frame.registryAtStart }
\* the particles pushed by the calls for the keys in S
RECURSIVE Pushed(_)
Pushed(S) ==
  IF S = {} THEN 0
  ELSE LET k == CHOOSE x \in S : TRUE
       IN calls[k].burst + calls[k].trail + Pushed(S \ {k})
\* the speeds of the latest update calls of emitter k
RecentSpeeds(k) == [i \in DOMAIN recent[k] |-> recent[k][i].speed2]

\* C1: arm/trigger hysteresis.  For an emitter already tracked, a tick spawns a
\* burst batch (of BURST_PARTICLE_COUNT = 60 particles) if and only if the
\* emitter is armed and its smoothed speed is below BURST_TRIGGER_SPEED; a tick
\* with speed above BURST_ARM_SPEED leaves the emitter armed and spawns no
\* burst.  Over the speeds [20, 20, 3] the first two ticks arm without a burst
\* and the third spawns one batch of 60 and disarms; over [20, 20, 20] no burst
\* is spawned and the emitter stays armed.
C1_ArmTriggerHysteresis ==
  /\ \A k \in Updated :
       LET c == calls[k] IN
       /\ c.burst \in { 0, BURST_PARTICLE_COUNT }
       /\ (c.burst = BURST_PARTICLE_COUNT)
            <=> (c.armedBefore /\ c.speed2 < Speed2(BURST_TRIGGER_SPEED))
       /\ c.speed2 > Speed2(BURST_ARM_SPEED)
            => (c.burst = 0 /\ k \in DOMAIN emitters /\ emitters[k].isBurstArmed)
       /\ c.burst = BURST_PARTICLE_COUNT
            => (k \in DOMAIN emitters /\ ~emitters[k].isBurstArmed)
  /\ \A k \in DOMAIN recent :
       LET r == recent[k] IN
       /\ RecentSpeeds(k) = << Speed2(20), Speed2(20), Speed2(3) >>
            => /\ r[1].burst = 0 /\ r[1].armed
               /\ r[2].burst = 0 /\ r[2].armed
               /\ r[3].burst = 60 /\ ~r[3].armed
       /\ RecentSpeeds(k) = << Speed2(20), Speed2(20), Speed2(20) >>
            => \A i \in 1..3 : r[i].burst = 0 /\ r[i].armed

\* the speeds [20, 20, 3] have been seen and the third tick spawned the burst
C1_Witness ==
  \E k \in Updated :
    /\ RecentSpeeds(k) = << Speed2(20), Speed2(20), Speed2(3) >>
    /\ calls[k].burst = 60
    /\ Len(particles) >= 60

\* C2: no streak on create.  On the tick a key is first seen (absent from the
\* registry when updateEmitter is called) its emitter is seeded at the raw
\* target with zero velocity and burstArmed false, the call adds no particle
\* and leaves the flash intensity as it was; a tick that only creates emitters
\* adds no particle at all: every particle added in a tick was pushed by a call
\* that found its emitter in the registry.
C2_NoStreakOnCreate ==
  /\ \A k \in Created :
       LET c == calls[k]
           tip == frame.landmarks[k[1] + 1][k[2]]
       IN /\ k \in DOMAIN emitters
          /\ emitters[k] = [ x |-> (canvasWidth - tip.x) * Q, y |-> tip.y * Q,
                             vx |-> 0, vy |-> 0, isBurstArmed |-> FALSE ]
          /\ c.burst = 0 /\ c.trail = 0
          /\ c.flashAfter = c.flashBefore
  /\ frame.emitted = Pushed(Updated)
  /\ Updated = {} => frame.flashAtOverlay = frame.flashAtStart

\* emitters are created away from the origin in a tick in which another
\* emitter spawns particles
C2_Witness ==
  /\ \E k \in Created : emitters[k].y > 0
  /\ frame.emitted > 0

\* the emitters the last run found in the registry and did not track
Lost == frame.registryAtStart \ frame.activeKeys

\* C3 as claimed: an emitter in the registry at tick N whose key is absent from
\* the tracked set at tick N+1 is removed from the registry before the emission
\* phase of tick N+1 (it is not in the registry while the emitters are updated),
\* emits no particle and is not updated at tick N+1.
C3_AsClaimed ==
  \A k \in Lost :
    /\ k \notin frame.registryAfterUpdates
    /\ k \notin DOMAIN emitters
    /\ k \notin DOMAIN calls

\* C3, amended: in a tick that processes tracking, an emitter of the registry
\* whose key is not tracked is still in the registry when the emitter updates
\* of that tick end, is removed by the cleanup that follows them (so it is gone
\* when the overlay is drawn and the simulation step runs), gets no
\* updateEmitter call and so pushes no particle; a tick that does not process
\* tracking (video not playing) calls no updateEmitter, pushes no particle and
\* leaves the registry as it was.
C3_DeletionOnLoss ==
  /\ frame.processed =>
       \A k \in Lost :
         /\ k \in frame.registryAfterUpdates
         /\ k \notin DOMAIN emitters
         /\ k \notin DOMAIN calls
  /\ frame.emitted = Pushed(DOMAIN calls)
  /\ DOMAIN calls = frame.activeKeys
  /\ ~frame.processed =>
       /\ DOMAIN emitters = frame.registryAtStart
       /\ DOMAIN calls = {}
       /\ frame.emitted = 0

\* emitters are lost in a tick in which a tracked emitter pushes particles
C3_Witness ==
  /\ frame.processed
  /\ Lost # {}
  /\ frame.activeKeys # {}
  /\ frame.emitted > 0

\* C4 as claimed: after every tick in which there are no tracked points the
\* registry is empty.
C4_AsClaimed ==
  (tick > 0 /\ frame.activeKeys = {}) => DOMAIN emitters = {}

\* C4, amended: after every tick that processes tracking (video playing) and
\* in which the detector reports no hand, the registry is empty.
C4_NoHandsEmptiesRegistry ==
  (tick > 0 /\ frame.processed /\ frame.landmarks = << >>) => DOMAIN emitters = {}

\* a tick with no hand found emitters in the registry
C4_Witness ==
  /\ frame.processed
  /\ frame.landmarks = << >>
  /\ frame.registryAtStart # {}
  /\ DOMAIN emitters = {}

\* the number of calls of the last tick that triggered a burst
Bursts == Cardinality({ k \in DOMAIN calls : calls[k].burst > 0 })

\* C8: density bound.  On every tick the particleChance passed to every
\* updateEmitter call is 1 / max(1, E * 0.5) (here 2 / max(2, E), up to the
\* last unit), E being the number of tracked fingertip slots of the tick; it
\* is in (0, 1], and E = 10 gives 0.2.
C8_DensityBound ==
  \A k \in DOMAIN calls :
    LET c == calls[k]
        E == Cardinality(frame.activeKeys)
    IN /\ c.particleChance * Max(2, E) <= 2 * ONE
       /\ 2 * ONE < (c.particleChance + 1) * Max(2, E)
       /\ c.particleChance > 0
       /\ c.particleChance <= ONE
       /\ E = 10 => c.particleChance = ONE \div 5

\* a tick with two hands: ten slots, every call given the chance 0.2
C8_Witness ==
  /\ Cardinality(frame.activeKeys) = 10
  /\ Cardinality(DOMAIN calls) = 10
  /\ \A k \in DOMAIN calls : calls[k].particleChance = ONE \div 5

\* C9: flash range.  The flash intensity is in [0, 1] in every state; each
\* call that triggers a burst raises it by 0.5 clamped to 1.0, also when
\* several emitters trigger in one tick; no other call changes it and the rest
\* of the tick never raises it.
C9_FlashRange ==
  /\ lighting >= 0
  /\ lighting <= ONE
  /\ \A k \in DOMAIN calls :
       LET c == calls[k] IN
       /\ c.flashBefore >= 0
       /\ c.flashAfter <= ONE
       /\ c.flashAfter = IF c.burst > 0 THEN Min(c.flashBefore + ONE \div 2, ONE) ELSE c.flashBefore
  /\ tick > 0 =>
       /\ frame.flashAtOverlay = Min(frame.flashAtStart + Bursts * (ONE \div 2), ONE)
       /\ lighting <= frame.flashAtOverlay

\* several emitters triggered in one tick and the clamp cut the sum
C9_Witness ==
  /\ tick > 0
  /\ Bursts >= 2
  /\ frame.flashAtStart + Bursts * (ONE \div 2) > ONE
  /\ frame.flashAtOverlay = ONE

\* ---------------------------------------------------- claims under SpecSim
\* ceil(p.life / p.decay)
Expiry(p) == (p.life + p.decay - 1) \div p.decay
\* the particles of the starting population that n calls leave, by index
Remaining(n) == { i \in DOMAIN sim.origin : n < Expiry(sim.origin[i]) }
\* the particles of the population passed to the last call that it keeps
Kept == { i \in DOMAIN sim.before : sim.before[i].life - sim.before[i].decay > 0 }
\* the place of index i among the indices S, in order
Place(S, i) == Cardinality({ j \in S : j <= i })
\* two values in hundredths that agree up to the rounding of the last unit
Near(a, b) == Abs(a - b) < 100

\* C5: expiry.  After n calls of updateParticles with no emission, the
\* population holds exactly the starting particles with n < ceil(L / d), in
\* order, each with life L - n * d: a particle is present after every call
\* before the ceil(L / d)-th and absent from then on; ceil(L / d) is at most
\* ceil(1 / d).
C5_Expiry ==
  LET S == Remaining(tick) IN
  /\ Len(particles) = Cardinality(S)
  /\ \A i \in DOMAIN sim.origin :
       LET p == sim.origin[i] IN
       /\ Expiry(p) <= (ONE + p.decay - 1) \div p.decay
       /\ i \in S =>
            LET q == particles[Place(S, i)] IN
            /\ q.life = p.life - tick * p.decay
            /\ q.decay = p.decay /\ q.size = p.size /\ q.color = p.color
            /\ q.type = p.type /\ q.gravity = p.gravity

\* a particle made with life 1.0 and decay 0.01 was present after 99 calls and
\* is absent after the 100th
C5_Witness ==
  /\ sim.origin # << >>
  /\ sim.origin[1].life = ONE
  /\ tick = Expiry(sim.origin[1])
  /\ tick = (ONE + sim.origin[1].decay - 1) \div sim.origin[1].decay
  /\ tick = 100
  /\ 1 \notin Remaining(tick)
  /\ Len(particles) < Len(sim.before)

\* C6 as claimed: a particle with y = height and vy > 0 that survives the
\* tick has afterwards vy' = -0.6 * vy and y' = height.
C6_AsClaimed ==
  tick > 0 =>
    \A i \in Kept :
      LET p == sim.before[i]
          q == particles[Place(Kept, i)]
      IN (p.y = canvasHeight * Q /\ p.vy > 0)
           => (q.y = canvasHeight * Q /\ Near(100 * q.vy, -BOUNCE_DAMPING * p.vy))

\* C6, amended: a particle with y = height and vy > 0 that survives the tick
\* has afterwards vy' = -0.6 * (vy + gravity) and y' = height: gravity is added
\* to the velocity before the bounce reflects it.
C6_FloorBounce ==
  tick > 0 =>
    \A i \in Kept :
      LET p == sim.before[i]
          q == particles[Place(Kept, i)]
      IN (p.y = canvasHeight * Q /\ p.vy > 0)
           => /\ q.y = canvasHeight * Q
              /\ Near(100 * q.vy, -BOUNCE_DAMPING * (p.vy + p.gravity))

\* a particle on the floor line moving down survived the tick
C6_Witness ==
  /\ tick > 0
  /\ \E i \in Kept :
       /\ sim.before[i].y = canvasHeight * Q
       /\ sim.before[i].vy > 0
       /\ particles[Place(Kept, i)].vy < 0

\* C7: particle life.  Every particle passed to drawParticles (the result of
\* updateParticles) has life in (0, 1]; the particles drawn are exactly those
\* of the population passed to updateParticles whose life stays positive after
\* the decay of that call, in order, so a particle whose life reaches 0 or
\* less is removed in that call and not drawn; a particle pushed in the same
\* tick (life 1.0 when updateParticles is called) is aged and kept alike.
C7_LifeInvariant ==
  tick > 0 =>
    /\ \A j \in DOMAIN particles : particles[j].life > 0 /\ particles[j].life <= ONE
    /\ Len(particles) = Cardinality(Kept)
    /\ \A i \in Kept :
         particles[Place(Kept, i)].life = sim.before[i].life - sim.before[i].decay
    /\ \A i \in DOMAIN sim.before : sim.before[i].life > 0 /\ sim.before[i].life <= ONE

\* one call drew a particle pushed in that tick and removed one whose life
\* reached exactly 0
C7_Witness ==
  /\ tick > 0
  /\ \E i \in DOMAIN sim.before : sim.before[i].life = sim.before[i].decay
  /\ \E i \in Kept : sim.before[i].life = ONE
  /\ Len(particles) < Len(sim.before)

\* the visibility threshold 0.01
Visible(v) == v > ONE \div 100

\* C10 as claimed: on every tick the flash is decayed by 0.85, and the
\* overlay is composited exactly when the decayed value is above the
\* threshold, with alpha 0.4 of the value the tick started from.
C10_AsClaimed ==
  tick > 0 =>
    /\ Near(100 * lighting, FLASH_DECAY * frame.flashAtOverlay)
    /\ (frame.overlay # NoOverlay) <=> Visible(lighting)

\* C10, amended: on every tick, if the flash intensity is above 0.01 the
\* overlay is composited with alpha 0.4 times the intensity not yet decayed,
\* and the intensity is then multiplied by 0.85; otherwise no overlay is
\* composited and the intensity is left as it is.
C10_FlashDecay ==
  tick > 0 =>
    LET v == frame.flashAtOverlay IN
    IF Visible(v)
    THEN /\ frame.overlay # NoOverlay
         /\ Near(100 * frame.overlay, OVERLAY_ALPHA * v)
         /\ Near(100 * lighting, FLASH_DECAY * v)
    ELSE /\ frame.overlay = NoOverlay
         /\ lighting = v

\* the last tick that composites the overlay: the intensity was above the
\* threshold and its decayed value is not
C10_Witness ==
  /\ tick > 0
  /\ Visible(frame.flashAtOverlay)
  /\ ~Visible(lighting)
  /\ lighting > 0
  /\ frame.overlay # NoOverlay

\* ------------------------------------------------- claims under Spec, again
\* the places of the step op in the log of the last run of animate()
Steps(op) == { i \in DOMAIN frame.log : frame.log[i].op = op }
\* every step a comes before every step b
Before(a, b) == \A i \in Steps(a), j \in Steps(b) : i < j
\* the keys the cleanup of the last run deleted
Deleted == UNION { frame.log[i].keys : i \in Steps("cleanup") }

\* C11: order within a tick.  In every run of animate() all updateEmitter
\* calls come before the cleanup, the cleanup before the overlay, the overlay
\* before updateParticles, and updateParticles runs once, before the one
\* drawParticles; the overlay shows the flash the updates of that tick left
\* and the particles pushed in the tick are aged once by its simulation step;
\* a key the cleanup deleted is not in the registry at the end of the tick.
C11_TickOrder ==
  tick > 0 =>
    /\ Before("drawImage", "updateEmitter")
    /\ Before("updateEmitter", "cleanup")
    /\ Before("cleanup", "fillRect")
    /\ Before("updateEmitter", "fillRect")
    /\ Before("fillRect", "updateParticles")
    /\ Before("cleanup", "updateParticles")
    /\ Before("updateEmitter", "updateParticles")
    /\ Before("updateParticles", "drawParticles")
    /\ Cardinality(Steps("updateParticles")) = 1
    /\ Cardinality(Steps("drawParticles")) = 1
    /\ Cardinality(Steps("fillRect")) <= 1
    /\ Cardinality(Steps("cleanup")) = (IF frame.processed THEN 1 ELSE 0)
    /\ { frame.log[i].key : i \in Steps("updateEmitter") } = frame.activeKeys
    /\ Cardinality(Steps("updateEmitter")) = Cardinality(frame.activeKeys)
    /\ Deleted = (IF frame.processed THEN frame.registryAfterUpdates \ frame.activeKeys ELSE {})
    /\ Deleted \cap DOMAIN emitters = {}
    /\ DOMAIN emitters = frame.registryAfterUpdates \ Deleted
    /\ (Steps("fillRect") # {}) <=> (frame.overlay # NoOverlay)
    /\ frame.flashAtOverlay = Min(frame.flashAtStart + Bursts * (ONE \div 2), ONE)
    /\ \A i \in Steps("updateParticles") :
         frame.log[i].population = frame.population + frame.emitted
    /\ \A i \in Steps("drawParticles") : frame.log[i].population = Len(particles)
    /\ \A j \in 1..frame.emitted :
         LET p == particles[Len(particles) - frame.emitted + j]
         IN p.life = ONE - p.decay

\* a run of animate() that updated emitters which pushed particles, deleted
\* untracked emitters and drew the overlay
C11_Witness ==
  /\ tick > 0
  /\ frame.emitted > 0
  /\ Deleted # {}
  /\ frame.activeKeys # {}
  /\ Steps("fillRect") # {}
  /\ Len(particles) > frame.emitted

\* C14 as claimed: no updateEmitter call adds both a burst batch and a trail
\* particle.
C14_AsClaimed ==
  \A k \in DOMAIN calls : ~(calls[k].burst > 0 /\ calls[k].trail > 0)

\* C14, amended: an updateEmitter call adds at most one burst batch and at
\* most two trail particles, and it adds both a burst batch and a trail
\* particle only when the emitter was armed and its smoothed speed s is
\* between DRAW_SPEED_THRESHOLD and BURST_TRIGGER_SPEED (3 < s < 5), in which
\* case the trail particles are at most one.
C14_BurstAndTrail ==
  \A k \in DOMAIN calls :
    LET c == calls[k] IN
    /\ c.burst \in { 0, BURST_PARTICLE_COUNT }
    /\ c.trail \in 0..2
    /\ c.created => (c.burst = 0 /\ c.trail = 0)
    /\ (c.burst > 0 /\ c.trail > 0)
         => /\ c.armedBefore
            /\ c.speed2 > Speed2(DRAW_SPEED_THRESHOLD)
            /\ c.speed2 < Speed2(BURST_TRIGGER_SPEED)
            /\ c.trail = 1
    /\ (c.burst > 0 /\ c.speed2 <= Speed2(DRAW_SPEED_THRESHOLD)) => c.trail = 0
    /\ c.speed2 >= Speed2(BURST_TRIGGER_SPEED) => c.burst = 0

\* one call pushed a burst batch and a trail particle; it is the last call of
\* the tick that pushed anything
C14_Witness ==
  \E k \in Updated :
    /\ calls[k].burst = BURST_PARTICLE_COUNT
    /\ calls[k].trail = 1
    /\ frame.emitted = BURST_PARTICLE_COUNT + 1
    /\ particles[Len(particles)].type = "trail"
    /\ particles[Len(particles) - 1].type = "burst"

\* C15: trail emission bounds.  A call that finds its emitter in the registry
\* and smooths it to speed s pushes no trail particle if s <= 3, at most one
\* if 3 < s <= 6 and at most two if s > 6; each is created at the smoothed
\* position of the emitter with life 1.0, as a trail particle of the colour of
\* the finger.
C15_TrailBounds ==
  \A k \in Updated :
    LET c == calls[k] IN
    /\ c.trail = Len(c.trails)
    /\ c.trail >= 0
    /\ c.speed2 <= Speed2(DRAW_SPEED_THRESHOLD) => c.trail = 0
    /\ c.speed2 <= Speed2(2 * DRAW_SPEED_THRESHOLD) => c.trail <= 1
    /\ c.trail <= 2
    /\ \A i \in DOMAIN c.trails :
         LET p == c.trails[i] IN
         /\ k \in DOMAIN emitters
         /\ p.x = emitters[k].x
         /\ p.y = emitters[k].y
         /\ p.life = ONE
         /\ p.type = "trail"
         /\ p.color = FINGER_COLORS[k[2] + 1]

\* two fingers moving together faster than 6: the draws gave one of them two
\* trail particles and the other fewer
C15_Witness ==
  \E k1 \in Updated, k2 \in Updated :
    /\ calls[k1].speed2 = calls[k2].speed2
    /\ calls[k1].speed2 > Speed2(2 * DRAW_SPEED_THRESHOLD)
    /\ calls[k1].trail = 2
    /\ calls[k2].trail < 2
    /\ emitters[k1].x # calls[k1].targetX

\* emitter k has been faster than BURST_ARM_SPEED in an update that recent
\* still holds, or was armed before the oldest of them
Flicked(k) ==
  \/ \E i \in DOMAIN recent[k] : recent[k][i].speed2 > Speed2(BURST_ARM_SPEED)
  \/ Len(recent[k]) = RecentLen

\* C17 as claimed: an emitter that is armed when its key is not in the
\* tracked set of a tick is deleted in that tick; an emitter just created is
\* not armed and spawns no burst; a burst is spawned only by an emitter armed
\* by a speed above BURST_ARM_SPEED since its creation.
C17_AsClaimed ==
  tick > 0 =>
    /\ (frame.armedAtStart \ frame.activeKeys) \cap DOMAIN emitters = {}
    /\ \A k \in Created : ~emitters[k].isBurstArmed /\ calls[k].burst = 0
    /\ \A k \in Updated : calls[k].burst > 0 => (calls[k].armedBefore /\ Flicked(k))

\* C17, amended: an emitter that is armed when its key is not in the tracked
\* set of a tick that processes tracking is deleted in that tick, while a
\* tick with the video not playing keeps every emitter and its flag; an
\* emitter just created is not armed and spawns no burst; an emitter is armed
\* only after a speed above BURST_ARM_SPEED since its creation, and a burst
\* is spawned only by an emitter that was armed.
C17_GestureReset ==
  tick > 0 =>
    /\ frame.processed => (frame.armedAtStart \ frame.activeKeys) \cap DOMAIN emitters = {}
    /\ frame.processed => DOMAIN emitters = frame.activeKeys
    /\ ~frame.processed =>
         /\ DOMAIN emitters = frame.registryAtStart
         /\ { k \in DOMAIN emitters : emitters[k].isBurstArmed } = frame.armedAtStart
    /\ \A k \in Created :
         /\ ~emitters[k].isBurstArmed
         /\ calls[k].burst = 0
         /\ recent[k] = << >>
    /\ \A k \in Updated :
         /\ calls[k].armedBefore <=> (k \in frame.armedAtStart)
         /\ calls[k].burst > 0 => (calls[k].armedBefore /\ Flicked(k))
    /\ \A k \in DOMAIN emitters : emitters[k].isBurstArmed => Flicked(k)

\* armed emitters were deleted in a tick that tracked none of their keys
C17_Witness ==
  /\ tick > 0
  /\ frame.processed
  /\ frame.armedAtStart # {}
  /\ frame.armedAtStart \cap frame.activeKeys = {}
  /\ frame.armedAtStart \cap DOMAIN emitters = {}
  /\ emitters = EmptyMap

\* v is the fraction INERTIA_FACTOR of d, and d - v the rest of it, on the
\* same side
Smoothed(d, v) ==
  /\ Abs(100 * v - INERTIA_FACTOR * d) < 100
  /\ Abs(100 * (d - v) - (100 - INERTIA_FACTOR) * d) < 100
  /\ (d - v) * d >= 0
  /\ Abs(d - v) <= Abs(d)

\* C18: inertia smoothing.  A call that finds its emitter in the registry
\* sets velocity = (target - position before) * INERTIA_FACTOR and position =
\* position before + velocity: the stored velocity is the position change of
\* the tick, and the distance to the target becomes 0.75 of what it was, on
\* the same side of the target.
C18_InertiaSmoothing ==
  [][ \A k \in DOMAIN emitters :
        (k \in DOMAIN calls' /\ k \in DOMAIN emitters')
          => /\ ~calls'[k].created
             /\ emitters'[k].x = emitters[k].x + emitters'[k].vx
             /\ emitters'[k].y = emitters[k].y + emitters'[k].vy
             /\ Smoothed(calls'[k].targetX - emitters[k].x, emitters'[k].vx)
             /\ Smoothed(calls'[k].targetY - emitters[k].y, emitters'[k].vy)
             /\ calls'[k].targetX - emitters'[k].x
                  = (calls'[k].targetX - emitters[k].x) - emitters'[k].vx
             /\ calls'[k].speed2
                  = emitters'[k].vx * emitters'[k].vx + emitters'[k].vy * emitters'[k].vy ]_vars

\* an emitter moved along both axes towards a target it has not reached
C18_Witness ==
  \E k \in Updated :
    /\ emitters[k].vx # 0
    /\ emitters[k].vy # 0
    /\ emitters[k].x # calls[k].targetX
    /\ Abs(calls[k].targetX - emitters[k].x) > 2 * Abs(emitters[k].vx)
    /\ Abs(calls[k].targetY - emitters[k].y) > 2 * Abs(emitters[k].vy)

\* C19: registry and tracked set agree.  At the end of a tick that processes
\* tracking the keys of the registry are exactly the keys tracked in it, five
\* per detected hand; at any time they are the keys tracked in the latest
\* processed tick, at most 10.
C19_RegistryAgreement ==
  /\ DOMAIN emitters = frame.lastTracked
  /\ DOMAIN emitters \subseteq Keys
  /\ Cardinality(DOMAIN emitters) <= 2 * NumFingers
  /\ Cardinality(DOMAIN emitters) <= 10
  /\ frame.processed =>
       /\ DOMAIN emitters = frame.activeKeys
       /\ DOMAIN emitters
            = { << h, f >> : h \in 0..(Len(frame.landmarks) - 1), f \in 0..4 }
       /\ Cardinality(DOMAIN emitters) = 5 * Len(frame.landmarks)
       /\ DOMAIN calls = DOMAIN emitters
  /\ (tick > 0 /\ ~frame.processed) => DOMAIN emitters = frame.registryAtStart

\* a tick tracked one hand where the registry held the emitters of two
C19_Witness ==
  /\ frame.processed
  /\ Cardinality(frame.registryAtStart) = 10
  /\ Cardinality(DOMAIN emitters) = 5
  /\ Len(frame.landmarks) = 1

\* ------------------------------------------------- claims under SpecQuiet
\* ceil(1 / 0.01), the calls the longest-lived particle lasts
Longest == (ONE + Hundredths(1, ONE) - 1) \div Hundredths(1, ONE)

\* C12 as claimed: driven with no tracked point, the registry is empty after
\* the first tick and stays empty, the population never grows and is empty
\* from the 100th tick on, and the flash never increases.
C12_AsClaimed ==
  tick > 0 =>
    /\ emitters = EmptyMap
    /\ Len(particles) <= Len(sim.before)
    /\ tick >= Longest => particles = << >>
    /\ lighting <= frame.flashAtStart

\* C12, amended: driven with no tracked point, the registry never grows, is
\* empty after the first tick that processes tracking (video playing) and
\* stays empty, a tick with the video not playing leaving it as it is; the
\* population never grows and is empty from the 100th tick on; the flash
\* never increases.
C12_IdleTolerance ==
  tick > 0 =>
    /\ frame.processed => emitters = EmptyMap
    /\ frame.registryAtStart = {} => emitters = EmptyMap
    /\ ~frame.processed => DOMAIN emitters = frame.registryAtStart
    /\ Len(particles) <= Len(sim.before)
    /\ Len(particles) <= Len(sim.origin)
    /\ tick >= Longest => particles = << >>
    /\ lighting <= frame.flashAtStart
    /\ frame.emitted = 0

\* after 99 ticks with the video not playing, a tick that processes tracking
\* empties the registry, and the last particle expires in it
C12_Witness ==
  /\ tick = Longest
  /\ frame.processed
  /\ frame.registryAtStart # {}
  /\ emitters = EmptyMap
  /\ Len(sim.before) > 0
  /\ particles = << >>

\* -------------------------------------------------- claims under SpecLoop
\* C13: no duplicated ticks.  At any time at most one animate callback is
\* pending with requestAnimationFrame, so no display refresh runs animate()
\* more than once and, once the loop has started, every refresh runs it
\* exactly once.
C13_SingleLoop ==
  /\ loop.pending + loop.queue <= 1
  /\ loop.ran <= 1
  /\ (loop.refresh > 0 /\ loop.queue = 0) => loop.ran = 1

\* two animate callbacks ran in one display refresh and two are pending again
C13_Witness ==
  /\ loop.loads = 2
  /\ loop.ran = 2
  /\ loop.queue = 0
  /\ loop.pending = 2
  /\ tick = 2 + 2 * loop.refresh

\* ------------------------------------------------- claims under SpecFlick
\* a step from one processed frame to the next with the same landmarks
Held ==
  /\ tick' = tick + 1
  /\ frame.processed /\ frame'.processed
  /\ frame.landmarks # << >>
  /\ frame'.landmarks = frame.landmarks

\* C16: flick, then stop.  An armed emitter that stays tracked with a
\* stationary raw target eventually gets a tick that spawns a burst and leaves
\* it not armed; while the target is stationary each tick multiplies the
\* velocity by 1 - INERTIA_FACTOR (up to the last unit), and an emitter that
\* is not armed stays so and spawns no burst: one burst for the arming.
C16_FlickThenStop ==
  /\ \A k \in Keys :
       (k \in DOMAIN emitters /\ emitters[k].isBurstArmed)
         ~> (/\ k \in DOMAIN calls
             /\ calls[k].burst = BURST_PARTICLE_COUNT
             /\ k \in DOMAIN emitters
             /\ ~emitters[k].isBurstArmed)
  /\ [][ Held =>
           \A k \in DOMAIN emitters :
             /\ k \in DOMAIN emitters'
             /\ Abs(100 * emitters'[k].vx - (100 - INERTIA_FACTOR) * emitters[k].vx) < 100
             /\ Abs(100 * emitters'[k].vy - (100 - INERTIA_FACTOR) * emitters[k].vy) < 100
             /\ calls'[k].speed2 <= calls[k].speed2
             /\ ~emitters[k].isBurstArmed
                  => (~emitters'[k].isBurstArmed /\ calls'[k].burst = 0) ]_vars

\* an emitter stayed armed over two ticks of a stationary target and the
\* next tick spawned the burst
C16_Witness ==
  \E k \in Updated :
    /\ tick >= 5
    /\ Len(recent[k]) = 3
    /\ recent[k][1].armed /\ recent[k][1].burst = 0
    /\ recent[k][2].armed /\ recent[k][2].burst = 0
    /\ recent[k][3].burst = BURST_PARTICLE_COUNT
    /\ recent[k][1].speed2 > recent[k][2].speed2
    /\ recent[k][2].speed2 > recent[k][3].speed2
    /\ ~emitters[k].isBurstArmed

\* -------------------------------------------------- claims under SpecDraw
\* C20: additive rendering does not depend on the order.  drawParticles of a
\* population taken in any order gives, over the same surface, the pixels
\* that drawing it in its own order gives, and leaves the context in the
\* compositing mode 'source-over'.
C20_OrderIndependence ==
  canvas.calls > 0 =>
    /\ canvas.ctx.pixels = canvas.reference.pixels
    /\ canvas.ctx.globalCompositeOperation = "source-over"
    /\ canvas.reference.globalCompositeOperation = "source-over"

\* three particles, not all alike, were drawn in another order than their
\* own over a pixel that the three cover, one channel reaching 255
C20_Witness ==
  /\ canvas.calls > 0
  /\ Len(particles) = 3
  /\ canvas.order # << 1, 2, 3 >>
  /\ particles[canvas.order[1]] # particles[1]
  /\ \E pixel \in DrawPixels :
       /\ \A i \in 1..3 : InArc(pixel, particles[i])
       /\ canvas.ctx.pixels[pixel][1] = 255
       /\ canvas.ctx.pixels[pixel][3] < 255

\* the moves of recorderState that an event may make
Moves ==
  { << "IDLE", "press", "RECORDING" >>,
    << "RECORDING", "onstop", "FINISHED" >>,
    << "RECORDING", "press", "IDLE" >>,
    << "FINISHED", "reset", "IDLE" >> }

\* C21: Whatever the order of presses, releases, leaves, recorder stop events,
\* resets and downloads, recorderState changes only from IDLE to RECORDING
\* (a press), from RECORDING to FINISHED (onstop), from RECORDING to IDLE (the
\* recorder could not be constructed) and from FINISHED to IDLE (reset);
\* it is never PROCESSING; whenever it is FINISHED a video blob is present,
\* and a reset leaves none.
C21_RecorderStateMachine ==
  /\ recorder.recorderState # "PROCESSING"
  /\ recorder.previous # recorder.recorderState
       => << recorder.previous, recorder.event, recorder.recorderState >> \in Moves
  /\ recorder.recorderState = "FINISHED" => recorder.videoBlob.present
  /\ recorder.event = "reset" => ~recorder.videoBlob.present

\* the stop event of a recorder arrives when the state is IDLE already
C21_Witness ==
  /\ recorder.event = "onstop"
  /\ recorder.previous = "IDLE"
  /\ recorder.recorderState = "FINISHED"
  /\ recorder.videoBlob.present

\* C22: At most one MediaRecorder records at any time; the first release or
\* leave of the hold button after a press that started a recorder calls
\* stop() on that recorder, exactly once, and the state then becomes FINISHED
\* eventually; a release or leave that no such press precedes, or that finds
\* the recorder inactive, stops nothing.
C22_PressAndHold ==
  /\ [](/\ Cardinality(Active(recorder)) <= 1
        /\ recorder.event \in { "release", "leave" } => recorder.stopped = recorder.due
        /\ \A i \in DOMAIN recorder.recorders : recorder.recorders[i].stops <= 1)
  /\ \A i \in 1..MaxRecorders :
       (i \in DOMAIN recorder.recorders /\ recorder.recorders[i].queued)
         ~> (recorder.recorderState = "FINISHED")

\* two recorders record at once, and the release stops the later one only
C22_Witness ==
  /\ recorder.event \in { "release", "leave" }
  /\ Cardinality(recorder.due) = 2
  /\ Cardinality(recorder.stopped) = 1
  /\ Active(recorder) # {}

====
